---- MODULE Spec2Model ----
(***************************************************************************)
(* i2pdf: images to single-page PDF documents.                             *)
(*                                                                         *)
(* The module models src/src/main.rs: the f32 arithmetic of the per-sample *)
(* blend (mul_alpha), the buffer loop (mul_alpha_buffer), the dispatch on  *)
(* the pixel layout (mul_alpha_to_image), the orchestration                *)
(* (process_image) and the per-file loop of main with the output file on   *)
(* disk.                                                                   *)
(***************************************************************************)
EXTENDS Integers, Sequences, FiniteSets, TLC

(***************************************************************************)
(* IEEE-754 binary32 (f32) arithmetic on the non-negative finite values    *)
(* the blend produces.  A value is the record [m, e] standing for m * 2^e, *)
(* in canonical form: m = 0 and e = 0, or m odd and m < 2^24.  Every       *)
(* operation rounds to nearest, ties to even, like the hardware does.      *)
(* Intermediate integers stay below 2^31: the 48-bit products are carried  *)
(* in two 24-bit halves (H, L) standing for H * 2^24 + L.                  *)
(***************************************************************************)

\* Width of the f32 significand: explicit 23 bits plus the hidden one.
MantBits == 24

Two24 == 2^MantBits

Two12 == 2^(MantBits \div 2)

RECURSIVE BitLen(_)
\* Number of bits of n: 0 for 0, k when 2^(k-1) <= n < 2^k.
BitLen(n) == IF n = 0 THEN 0 ELSE 1 + BitLen(n \div 2)

RECURSIVE Norm(_, _)
\* The canonical form of m * 2^e.
Norm(m, e) ==
  IF m = 0 THEN [m |-> 0, e |-> 0]
  ELSE IF m % 2 = 0 THEN Norm(m \div 2, e + 1)
  ELSE [m |-> m, e |-> e]

\* x with its significand shifted up to exactly 24 bits (x.m > 0).
Full(x) ==
  LET s == MantBits - BitLen(x.m)
  IN  [m |-> x.m * 2^s, e |-> x.e - s]

\* (H * 2^24 + L) * 2^e rounded to 24 significant bits, ties to even.
Round48(H, L, e) ==
  IF H = 0 THEN Norm(L, e)
  ELSE
    LET k    == BitLen(H)
        mant == H * 2^(MantBits - k) + (L \div 2^k)
        rem  == L % 2^k
        half == 2^(k - 1)
        up   == IF rem > half \/ (rem = half /\ mant % 2 = 1) THEN 1 ELSE 0
    IN  Norm(mant + up, e + k)

\* An integer below 2^24 as an f32: exact (u8 and u16 to f32).
F32FromInt(n) == Norm(n, 0)

\* x * y in f32.
F32Mul(x, y) ==
  LET xh == x.m \div Two12
      xl == x.m % Two12
      yh == y.m \div Two12
      yl == y.m % Two12
      t0 == xl * yl
      t1 == xh * yl + xl * yh + (t0 \div Two12)
      t2 == xh * yh + (t1 \div Two12)
      L  == (t1 % Two12) * Two12 + (t0 % Two12)
  IN  Round48(t2, L, x.e + y.e)

\* x + y in f32, x and y non-negative.
F32Add(x, y) ==
  IF x.m = 0 THEN y
  ELSE IF y.m = 0 THEN x
  ELSE
    LET fx == Full(x)
        fy == Full(y)
        X  == IF fx.e >= fy.e THEN fx ELSE fy
        Y  == IF fx.e >= fy.e THEN fy ELSE fx
        d  == X.e - Y.e
    IN  IF d > MantBits THEN Norm(X.m, X.e)
        ELSE
          LET H  == X.m \div 2^(MantBits - d)
              L  == (X.m % 2^(MantBits - d)) * 2^d
              L2 == L + Y.m
          IN  Round48(H + (L2 \div Two24), L2 % Two24, Y.e)

\* x - y in f32, for x >= y >= 0.
F32Sub(x, y) ==
  IF y.m = 0 THEN x
  ELSE
    LET X == Full(x)
        Y == Full(y)
        d == X.e - Y.e
    IN  IF d > MantBits
        THEN IF d = MantBits + 1 /\ X.m = 2^(MantBits - 1) /\ Y.m > 2^(MantBits - 1)
             THEN Norm(Two24 - 1, X.e - 1)
             ELSE Norm(X.m, X.e)
        ELSE
          LET H == X.m \div 2^(MantBits - d)
              L == (X.m % 2^(MantBits - d)) * 2^d
          IN  IF L >= Y.m THEN Round48(H, L - Y.m, Y.e)
              ELSE Round48(H - 1, L + Two24 - Y.m, Y.e)

RECURSIVE LongDiv(_, _, _, _)
\* n more quotient bits of (q + r/d): the pair <<quotient, remainder>>.
LongDiv(q, r, d, n) ==
  IF n = 0 THEN <<q, r>>
  ELSE IF 2 * r >= d THEN LongDiv(2 * q + 1, 2 * r - d, d, n - 1)
  ELSE LongDiv(2 * q, 2 * r, d, n - 1)

\* x / y in f32, y > 0.
F32Div(x, y) ==
  IF x.m = 0 THEN x
  ELSE
    LET X   == Full(x)
        Y   == Full(y)
        big == X.m >= Y.m
        num == IF big THEN X.m ELSE 2 * X.m
        e   == IF big THEN X.e - Y.e ELSE X.e - Y.e - 1
        qr  == LongDiv(1, num - Y.m, Y.m, MantBits - 1)
        q   == qr[1]
        r   == qr[2]
        up  == IF 2 * r > Y.m \/ (2 * r = Y.m /\ q % 2 = 1) THEN 1 ELSE 0
    IN  Norm(q + up, e - (MantBits - 1))

\* The integer part of x (x >= 0), for x below 2^24.
F32Trunc(x) ==
  IF x.e >= 0 THEN x.m * 2^(x.e)
  ELSE IF 0 - x.e >= MantBits THEN 0
  ELSE x.m \div 2^(0 - x.e)

\* x < n for an integer n with 0 < n <= 2^24.
F32LessInt(x, n) ==
  IF x.m = 0 THEN TRUE
  ELSE IF BitLen(x.m) + x.e > MantBits THEN FALSE
  ELSE F32Trunc(x) < n

(***************************************************************************)
(* Results of operations that can panic: unwrap() on None, unimplemented!. *)
(***************************************************************************)
Ok(v) == [ok |-> TRUE, val |-> v, why |-> "none"]

Panic(why) == [ok |-> FALSE, val |-> <<>>, why |-> why]

(***************************************************************************)
(* Pixel layouts: the variants of image::DynamicImage the decoder can hand *)
(* over, each with its channel count and its sample maximum                *)
(* (S::max_value()).                                                       *)
(***************************************************************************)
MaxU8 == 255

MaxU16 == 65535

Layouts ==
  {"ImageLuma8", "ImageLumaA8", "ImageRgb8", "ImageRgba8",
   "ImageLuma16", "ImageLumaA16", "ImageRgb16", "ImageRgba16"}

Channels(layout) ==
  CASE layout \in {"ImageLuma8", "ImageLuma16"}   -> 1
    [] layout \in {"ImageLumaA8", "ImageLumaA16"} -> 2
    [] layout \in {"ImageRgb8", "ImageRgb16"}     -> 3
    [] layout \in {"ImageRgba8", "ImageRgba16"}   -> 4

max_value(layout) ==
  IF layout \in {"ImageLuma8", "ImageLumaA8", "ImageRgb8", "ImageRgba8"}
  THEN MaxU8 ELSE MaxU16

\* The layouts mul_alpha_to_image has a match arm for.
Supported == {"ImageLuma8", "ImageRgb8", "ImageRgb16"}

(***************************************************************************)
(* The blend of one sample, as the closure of mul_alpha computes it.       *)
(***************************************************************************)

\* A cast that rounds half up, where the code's cast truncates.
NumCastToIntRounding(x, maxv) ==
  LET y == F32Add(x, [m |-> 1, e |-> -1])
  IN  IF F32LessInt(y, maxv + 1) THEN <<F32Trunc(y)>> ELSE <<>>

\* num_traits::NumCast::from(f32) to an unsigned integer type of maximum
\* maxv: Some(truncated value) for a value in (-1, maxv + 1), else None.
\* <<v>> is Some(v) and <<>> is None.
NumCastToInt(x, maxv) ==
  IF F32LessInt(x, maxv + 1) THEN <<F32Trunc(x)>> ELSE <<>>

\* A blend whose background is not scaled by 1.0 - alpha.
blend_wrong_background(p, alpha, maxv) ==
  F32Add(F32FromInt(maxv), F32Mul(alpha, F32FromInt(p)))

\* A blend with the weights of background and foreground exchanged.
blend_swapped_weights(p, alpha, maxv) ==
  F32Add(F32Mul(alpha, F32FromInt(maxv)),
         F32Mul(F32Sub(F32FromInt(1), alpha), F32FromInt(p)))

\* bgrnd + fgrnd of the closure, in f32.
blend_f32(p, alpha, maxv) ==
  LET max_pixel == F32FromInt(maxv)
      bgrnd     == F32Mul(F32Sub(F32FromInt(1), alpha), max_pixel)
      p_as_f32  == F32FromInt(p)
      fgrnd     == F32Mul(alpha, p_as_f32)
  IN  F32Add(bgrnd, fgrnd)

\* The closure |p| { ... } of mul_alpha before its unwrap().
blend(p, alpha, maxv) == NumCastToInt(blend_f32(p, alpha, maxv), maxv)

\* mul_alpha of Luma<S> and of Rgb<S>: map_with_alpha applies the closure to
\* every colour channel (neither type has an alpha channel); unwrap() panics
\* when a channel's cast gives None.
mul_alpha(pixel, alpha, maxv) ==
  LET ch == [i \in 1..Len(pixel) |-> blend(pixel[i], alpha, maxv)]
  IN  IF \E i \in 1..Len(pixel) : ch[i] = <<>>
      THEN Panic("unwrap")
      ELSE Ok([i \in 1..Len(pixel) |-> ch[i][1]])

\* mul_alpha_buffer: a new buffer of the same dimensions, every pixel put
\* through mul_alpha; px is the buffer's pixels in row-major order.
mul_alpha_buffer(px, alpha, maxv) ==
  LET out == [i \in 1..Len(px) |-> mul_alpha(px[i], alpha, maxv)]
  IN  IF \E i \in 1..Len(px) : ~out[i].ok
      THEN Panic("unwrap")
      ELSE Ok([i \in 1..Len(px) |-> out[i].val])

\* A dispatch that blends every layout, without the unimplemented!() arm.
mul_alpha_to_image_any_layout(img, alpha) ==
  LET r == mul_alpha_buffer(img.px, alpha, max_value(img.layout))
  IN  IF r.ok THEN Ok([img EXCEPT !.px = r.val]) ELSE r

\* mul_alpha_to_image: the three match arms, and unimplemented!() otherwise.
mul_alpha_to_image(img, alpha) ==
  IF img.layout \in Supported
  THEN LET r == mul_alpha_buffer(img.px, alpha, max_value(img.layout))
       IN  IF r.ok THEN Ok([img EXCEPT !.px = r.val]) ELSE r
  ELSE Panic("unimplemented")

(***************************************************************************)
(* image::imageops::grayscale on a DynamicImage (the image crate, not this *)
(* repository): every pixel is read as 8-bit RGBA and reduced to its       *)
(* luminance with the sRGB weights, the fraction cut off.                  *)
(***************************************************************************)

\* A sample as 8 bits.
ToU8(c, maxv) == IF maxv = MaxU8 THEN c ELSE (c + 128) \div 257

\* The pixel's colour as 8-bit <<r, g, b>> (the alpha channel is dropped).
ToRgb8(layout, pixel) ==
  LET maxv == max_value(layout)
  IN  IF Channels(layout) <= 2
      THEN LET l == ToU8(pixel[1], maxv) IN <<l, l, l>>
      ELSE <<ToU8(pixel[1], maxv), ToU8(pixel[2], maxv), ToU8(pixel[3], maxv)>>

rgb_to_luma(rgb) == (2126 * rgb[1] + 7152 * rgb[2] + 722 * rgb[3]) \div 10000

\* A reduction that keeps the sample width, as DynamicImage::grayscale does.
grayscale_keeps_depth(img) ==
  [layout |-> IF max_value(img.layout) = MaxU8 THEN "ImageLuma8" ELSE "ImageLuma16",
   width |-> img.width, height |-> img.height,
   px |-> [i \in 1..Len(img.px) |-> <<rgb_to_luma(ToRgb8(img.layout, img.px[i]))>>]]

\* The ImageLuma8 image process_image builds from grayscale(&output).
grayscale(img) ==
  [layout |-> "ImageLuma8", width |-> img.width, height |-> img.height,
   px |-> [i \in 1..Len(img.px) |-> <<rgb_to_luma(ToRgb8(img.layout, img.px[i]))>>]]

(***************************************************************************)
(* process_image                                                           *)
(***************************************************************************)

\* A factor that is the share of the background, not of the pixel.
factor_inverted(alpha_percent) ==
  F32Div(F32FromInt(100 - alpha_percent), F32FromInt(100))

\* f32::from(args.alpha) / 100.0
factor(alpha_percent) == F32Div(F32FromInt(alpha_percent), F32FromInt(100))

\* An orchestration that blends first and reduces to gray second.
process_image_alpha_first(args, img) ==
  LET blended == IF args.alpha < 100
                 THEN mul_alpha_to_image(img, factor(args.alpha))
                 ELSE Ok(img)
  IN  IF blended.ok /\ args.to_gray THEN Ok(grayscale(blended.val)) ELSE blended

\* An orchestration that also blends at alpha = 100.
process_image_always_blends(args, img) ==
  LET output == IF args.to_gray THEN grayscale(img) ELSE img
  IN  IF args.alpha <= 100
      THEN mul_alpha_to_image(output, factor(args.alpha))
      ELSE Ok(output)

\* process_image: to gray if asked, then the blend if alpha < 100.
process_image(args, img) ==
  LET output == IF args.to_gray THEN grayscale(img) ELSE img
  IN  IF args.alpha < 100
      THEN mul_alpha_to_image(output, factor(args.alpha))
      ELSE Ok(output)

(***************************************************************************)
(* The inputs: what the command line and the decoder can hand to main.     *)
(***************************************************************************)

\* Most input files of one run.
MaxFiles == 3

\* Most pixels of a decoded image.
MaxPixels == 2

\* args.alpha < 100 is what makes process_image blend.
Opaque == 100

\* Values of the u8 option --alpha, on both sides of the comparison.
AlphaValues == {0, 1, 50, Opaque - 1, Opaque, Opaque + 1, MaxU8}

\* Colours as 8-bit <<r, g, b, a>>.
Colours == {<<100, 150, 200, 255>>, <<255, 0, 0, 128>>, <<0, 0, 0, 255>>}

\* An 8-bit sample in the layout's sample width.
Widen(c, maxv) == IF maxv = MaxU8 THEN c ELSE c * 257

\* A colour as a pixel of the layout.
Encode(layout, c) ==
  LET maxv == max_value(layout)
      n    == Channels(layout)
  IN  CASE n = 1 -> <<Widen(c[1], maxv)>>
        [] n = 2 -> <<Widen(c[1], maxv), Widen(c[4], maxv)>>
        [] n = 3 -> <<Widen(c[1], maxv), Widen(c[2], maxv), Widen(c[3], maxv)>>
        [] n = 4 -> <<Widen(c[1], maxv), Widen(c[2], maxv), Widen(c[3], maxv),
                      Widen(c[4], maxv)>>

\* The images open_image can decode: every layout, every width x height of at
\* most MaxPixels pixels, every choice of colours.
Images ==
  UNION {
    { [layout |-> l, width |-> w, height |-> h, px |-> px] :
        px \in [1..(w * h) -> {Encode(l, c) : c \in Colours}] } :
    <<l, w, h>> \in {t \in Layouts \X (1..MaxPixels) \X (1..MaxPixels) :
                       t[2] * t[3] <= MaxPixels} }

\* A local of main that holds no image.
NoImage == [layout |-> "none", width |-> 0, height |-> 0, px |-> <<>>]

NoPdf == [name |-> 0, width |-> 0, height |-> 0, dpi |-> 0, image |-> NoImage]

\* const DPI
DPI == 300

\* create_pdf: one page of the image's size at DPI, holding the image.
create_pdf(doc_name, img) ==
  [name |-> doc_name, width |-> img.width, height |-> img.height,
   dpi |-> DPI, image |-> img]

(***************************************************************************)
(* State.  main's locals and position, the output files, and one pixel     *)
(* with its blends for the specification of mul_alpha alone.               *)
(***************************************************************************)
VARIABLES
  args,       \* Args: [to_gray, alpha]
  files,      \* args.files: the input files, numbered in command-line order
  file,       \* position of the for loop in files
  pc,         \* where main is: open, process, create_pdf, create_file, save,
              \* or how it ended: done (Ok), err (Err), panic
  failure,    \* what ended main early: none, decode, unimplemented, unwrap,
              \* create, save
  image,      \* the decoded image of the current file
  processed,  \* process_image's result for the current file
  pdf,        \* create_pdf's result for the current file
  disk,       \* per input file, its output file: untouched, empty (created
              \* or truncated), incomplete (the save failed), complete
  opened,     \* history: the files open_image was called on, in order
  px_layout,  \* the pixel's layout
  px_pixel,   \* the pixel
  px_alpha,   \* the lowest alpha percentage the pixel was blended at
  px_outs     \* mul_alpha's result at each percentage so far

vars ==
  <<args, files, file, pc, failure, image, processed, pdf, disk, opened,
    px_layout, px_pixel, px_alpha, px_outs>>

mainVars == <<args, files, file, pc, failure, image, processed, pdf, disk, opened>>

pixelVars == <<px_layout, px_pixel, px_alpha, px_outs>>

(***************************************************************************)
(* main                                                                    *)
(***************************************************************************)
InitMain ==
  /\ args \in [to_gray : BOOLEAN, alpha : AlphaValues]
  /\ files \in {[i \in 1..n |-> i] : n \in 0..MaxFiles}
  /\ file = 1
  /\ pc = "open"
  /\ failure = "none"
  /\ image = NoImage
  /\ processed = NoImage
  /\ pdf = NoPdf
  /\ disk = [i \in 1..Len(files) |-> "untouched"]
  /\ opened = <<>>

IdlePixel ==
  /\ px_layout = "none"
  /\ px_pixel = <<>>
  /\ px_alpha = Opaque
  /\ px_outs = <<>>

Init == InitMain /\ IdlePixel

\* A loop that goes on to the next file when one fails to decode.
OpenImageSkipsFailure ==
  /\ pc = "open"
  /\ file <= Len(files)
  /\ opened' = Append(opened, file)
  /\ \/ /\ \E img \in Images : image' = img
        /\ pc' = "process"
        /\ UNCHANGED <<failure, file>>
     \/ /\ failure' = "decode"
        /\ file' = file + 1
        /\ UNCHANGED <<pc, image>>
  /\ UNCHANGED <<args, files, processed, pdf, disk>>
  /\ UNCHANGED pixelVars

\* let image = open_image(&file).map_err(|_| ())?;
OpenImage ==
  /\ pc = "open"
  /\ file <= Len(files)
  /\ opened' = Append(opened, file)
  /\ \/ /\ \E img \in Images : image' = img
        /\ pc' = "process"
        /\ UNCHANGED failure
     \/ /\ pc' = "err"
        /\ failure' = "decode"
        /\ UNCHANGED image
  /\ UNCHANGED <<args, files, file, processed, pdf, disk>>
  /\ UNCHANGED pixelVars

\* let processed = process_image(&args, image);
ProcessImage ==
  /\ pc = "process"
  /\ LET r == process_image(args, image)
     IN  IF r.ok
         THEN /\ processed' = r.val
              /\ pc' = "create_pdf"
              /\ UNCHANGED failure
         ELSE /\ pc' = "panic"
              /\ failure' = r.why
              /\ UNCHANGED processed
  /\ UNCHANGED <<args, files, file, image, pdf, disk, opened>>
  /\ UNCHANGED pixelVars

\* let pdf = create_pdf(&file.to_string_lossy(), &processed);
CreatePdf ==
  /\ pc = "create_pdf"
  /\ pdf' = create_pdf(files[file], processed)
  /\ pc' = "create_file"
  /\ UNCHANGED <<args, files, file, failure, image, processed, disk, opened>>
  /\ UNCHANGED pixelVars

\* File::create(outfile).unwrap(): creates or truncates the output file.
CreateFile ==
  /\ pc = "create_file"
  /\ \/ /\ disk' = [disk EXCEPT ![file] = "empty"]
        /\ pc' = "save"
        /\ UNCHANGED failure
     \/ /\ pc' = "panic"
        /\ failure' = "create"
        /\ UNCHANGED disk
  /\ UNCHANGED <<args, files, file, image, processed, pdf, opened>>
  /\ UNCHANGED pixelVars

\* pdf.save(&mut BufWriter::new(..)).unwrap(), and the end of the loop body.
Save ==
  /\ pc = "save"
  /\ \/ /\ disk' = [disk EXCEPT ![file] = "complete"]
        /\ file' = file + 1
        /\ pc' = "open"
        /\ image' = NoImage
        /\ processed' = NoImage
        /\ pdf' = NoPdf
        /\ UNCHANGED failure
     \/ /\ disk' = [disk EXCEPT ![file] = "incomplete"]
        /\ pc' = "panic"
        /\ failure' = "save"
        /\ UNCHANGED <<file, image, processed, pdf>>
  /\ UNCHANGED <<args, files, opened>>
  /\ UNCHANGED pixelVars

\* The for loop is over: Ok(()).
Finish ==
  /\ pc = "open"
  /\ file > Len(files)
  /\ pc' = "done"
  /\ UNCHANGED <<args, files, file, failure, image, processed, pdf, disk, opened>>
  /\ UNCHANGED pixelVars

Next ==
  \/ OpenImage
  \/ ProcessImage
  \/ CreatePdf
  \/ CreateFile
  \/ Save
  \/ Finish

Spec == Init /\ [][Next]_vars

(***************************************************************************)
(* mul_alpha alone: one pixel of a supported layout, blended at every      *)
(* alpha percentage process_image passes on, from Opaque - 1 down to 0.    *)
(***************************************************************************)

\* 16-bit samples are taken every Stride16, and the EdgeSamples lowest ones.
Stride16 == 65

EdgeSamples == 16

Samples16 ==
  (0..EdgeSamples) \cup {k * Stride16 : k \in 0..((MaxU16 \div 2) \div Stride16)}

\* The pixels blended: every 8-bit sample and every sample v of Samples16,
\* with its complement maxv - v, occurs in some channel.
PixelsOf(layout) ==
  CASE layout = "ImageLuma8"  -> {<<v>> : v \in 0..MaxU8}
    [] layout = "ImageRgb8"   ->
         {<<v, MaxU8 - v, (2 * v) % (MaxU8 + 1)>> : v \in 0..(MaxU8 \div 2)}
    [] layout = "ImageRgb16"  ->
         {<<v, MaxU16 - v, (MaxU16 \div 2) + v>> : v \in Samples16}

PixelInputs ==
  /\ px_layout \in Supported
  /\ px_pixel \in PixelsOf(px_layout)
  /\ px_alpha = Opaque
  /\ px_outs = <<>>

IdleMain ==
  /\ args = [to_gray |-> FALSE, alpha |-> Opaque]
  /\ files = <<>>
  /\ file = 1
  /\ pc = "done"
  /\ failure = "none"
  /\ image = NoImage
  /\ processed = NoImage
  /\ pdf = NoPdf
  /\ disk = <<>>
  /\ opened = <<>>

\* img.get_pixel(x, y).mul_alpha(alpha), with alpha as process_image computes
\* it from the next lower percentage.
Blend ==
  /\ px_alpha > 0
  /\ px_alpha' = px_alpha - 1
  /\ px_outs' =
       [a \in px_alpha'..(Opaque - 1) |->
          IF a = px_alpha'
          THEN mul_alpha(px_pixel, factor(a), max_value(px_layout))
          ELSE px_outs[a]]
  /\ UNCHANGED <<px_layout, px_pixel>>
  /\ UNCHANGED mainVars

InitPixel == PixelInputs /\ IdleMain

NextPixel == Blend

SpecPixel == InitPixel /\ [][NextPixel]_vars

(***************************************************************************)
(* Properties.                                                             *)
(***************************************************************************)

\* process_image has returned or panicked for the current file.
AfterProcess ==
  \/ pc \in {"create_pdf", "create_file", "save"}
  \/ pc = "panic" /\ failure \in {"unimplemented", "unwrap"}

\* The layout of the buffer process_image hands to mul_alpha_to_image.
CompositorLayout == IF args.to_gray THEN "ImageLuma8" ELSE image.layout

\* floor((1 - a/100) * maxv + (a/100) * v), in exact arithmetic.
ExactBlend(v, a, maxv) == ((Opaque - a) * maxv + a * v) \div Opaque

\* C1 as the specification states it: the 8-bit RGB pixel (100, 150, 200)
\* blended at alpha 50 becomes (178, 203, 228), the rounded values.
C1_RoundedPixel ==
  (pc = "create_pdf" /\ ~args.to_gray /\ args.alpha = 50
     /\ image.layout = "ImageRgb8")
  => \A i \in 1..Len(image.px) :
       image.px[i] = <<100, 150, 200>> => processed.px[i] = <<178, 203, 228>>

\* C1, amended: the 8-bit RGB pixel (100, 150, 200) blended at alpha 50
\* becomes (177, 202, 227): each channel is 0.5 * 255 + 0.5 * v with the
\* fraction cut off, not rounded.
C1_TruncatedPixel ==
  (pc = "create_pdf" /\ ~args.to_gray /\ args.alpha = 50
     /\ image.layout = "ImageRgb8")
  => \A i \in 1..Len(image.px) :
       image.px[i] = <<100, 150, 200>> => processed.px[i] = <<177, 202, 227>>

C1_Witness ==
  /\ pc = "create_pdf" /\ ~args.to_gray /\ args.alpha = 50
  /\ image.layout = "ImageRgb8"
  /\ \E i \in 1..Len(image.px) :
       image.px[i] = <<100, 150, 200>> /\ processed.px[i] = <<177, 202, 227>>

\* C2: for every supported layout, every sample v and every alpha percentage
\* below Opaque, the cast of the blend succeeds and the output sample lies in
\* [0, maxv]; it is the exact blend with its fraction cut off, or one less
\* (the f32 sum can fall just short of an integer), so nothing wraps around.
C2_RangeSafe ==
  px_alpha < Opaque =>
    LET r    == px_outs[px_alpha]
        maxv == max_value(px_layout)
    IN  /\ r.ok
        /\ \A ch \in 1..Len(px_pixel) :
             /\ r.val[ch] \in 0..maxv
             /\ r.val[ch] <= ExactBlend(px_pixel[ch], px_alpha, maxv)
             /\ r.val[ch] >= ExactBlend(px_pixel[ch], px_alpha, maxv) - 1

\* The f32 sum for the white 8-bit sample at 7% is 255.00002: above maxv, and
\* still cast to 255.
C2_Witness ==
  /\ px_layout = "ImageLuma8" /\ px_pixel = <<MaxU8>> /\ px_alpha = 7
  /\ px_outs[7].ok /\ px_outs[7].val = <<MaxU8>>
  /\ ~F32LessInt(blend_f32(MaxU8, factor(7), MaxU8), MaxU8)

\* C3 as the specification states it: for a sample v < maxv, the output at a
\* lower alpha percentage is strictly greater than at any higher one.
C3_StrictlyBrighter ==
  px_alpha < Opaque /\ px_outs[px_alpha].ok =>
    \A a1 \in (px_alpha + 1)..(Opaque - 1) : \A ch \in 1..Len(px_pixel) :
      (px_pixel[ch] < max_value(px_layout) /\ px_outs[a1].ok)
      => px_outs[px_alpha].val[ch] > px_outs[a1].val[ch]

\* C3, amended: for a sample v < maxv and alpha percentages a1 > a2 below
\* Opaque, the output at a2 is greater than or equal to the output at a1.
C3_NeverDarker ==
  px_alpha < Opaque /\ px_outs[px_alpha].ok =>
    \A a1 \in (px_alpha + 1)..(Opaque - 1) : \A ch \in 1..Len(px_pixel) :
      (px_pixel[ch] < max_value(px_layout) /\ px_outs[a1].ok)
      => px_outs[px_alpha].val[ch] >= px_outs[a1].val[ch]

C3_Witness ==
  /\ px_layout = "ImageLuma8" /\ px_pixel = <<100>> /\ px_alpha = 50
  /\ px_outs[50].val = <<177>> /\ px_outs[Opaque - 1].val = <<101>>

\* C4: with alpha below Opaque, a buffer handed to mul_alpha_to_image in a
\* layout outside the three supported ones ends in unimplemented!() and no
\* image is produced; in a supported layout it never does, and the result
\* has the layout and the dimensions of the buffer.
C4_UnsupportedLayoutRejected ==
  (AfterProcess /\ args.alpha < Opaque) =>
    IF CompositorLayout \in Supported
    THEN /\ pc # "panic"
         /\ processed.layout = CompositorLayout
         /\ processed.width = image.width
         /\ processed.height = image.height
         /\ Len(processed.px) = Len(image.px)
    ELSE /\ pc = "panic"
         /\ failure = "unimplemented"
         /\ processed = NoImage

C4_Witness ==
  /\ pc = "panic" /\ failure = "unimplemented"
  /\ image.layout = "ImageRgba8" /\ args.alpha = Opaque - 1

\* C5: without --to-gray and with alpha at or above Opaque, process_image
\* returns the decoded image unchanged, whatever its layout, and does not
\* panic.
C5_OpaqueIsIdentity ==
  (AfterProcess /\ ~args.to_gray /\ args.alpha >= Opaque) =>
    /\ pc # "panic"
    /\ processed = image

C5_Witness ==
  /\ pc = "create_pdf" /\ ~args.to_gray /\ args.alpha = MaxU8
  /\ image.layout = "ImageRgba16" /\ processed = image

\* C6: with --to-gray and alpha below Opaque, the result is the single-channel
\* 8-bit image whose every sample is the blend of the luminance of the input
\* pixel: the reducer ran first and the compositor got its output.
C6_GrayThenBlend ==
  (AfterProcess /\ args.to_gray /\ args.alpha < Opaque) =>
    /\ pc # "panic"
    /\ processed.layout = "ImageLuma8"
    /\ Len(processed.px) = Len(image.px)
    /\ \A i \in 1..Len(image.px) :
         LET L == rgb_to_luma(ToRgb8(image.layout, image.px[i]))
         IN  /\ processed.px[i] = <<blend(L, factor(args.alpha), MaxU8)[1]>>
             /\ processed.px[i][1] <= ExactBlend(L, args.alpha, MaxU8)
             /\ processed.px[i][1] >= ExactBlend(L, args.alpha, MaxU8) - 1

\* Pure red has luminance 54, and 54 blended at 50% is 154.
C6_Witness ==
  /\ pc = "create_pdf" /\ args.to_gray /\ args.alpha = 50
  /\ image.layout = "ImageRgb8"
  /\ image.px = <<(<<255, 0, 0>>)>>
  /\ processed.px = <<(<<154>>)>>

\* C7: the files are opened in command-line order, each at most once; a
\* failure ends main at once (Err or panic), with every earlier file's output
\* complete and no later file opened or written.
C7_StopsAtFirstFailure ==
  /\ opened = [i \in 1..Len(opened) |-> i]
  /\ Len(opened) = IF pc \in {"open", "done"} THEN file - 1 ELSE file
  /\ \A i \in 1..Len(files) :
       /\ i < file => disk[i] = "complete"
       /\ i > file => disk[i] = "untouched"
  /\ failure # "none" <=> pc \in {"err", "panic"}
  /\ failure = "decode" <=> pc = "err"

C7_Witness ==
  /\ pc = "panic" /\ failure = "unimplemented"
  /\ Len(files) = 3 /\ file = 2
  /\ opened = <<1, 2>>
  /\ disk = <<"complete", "untouched", "untouched">>

\* C8 as the specification states it: however main ends, every output file
\* is either complete or was not touched.
C8_NoPartialOutput ==
  pc \in {"done", "err", "panic"} =>
    \A i \in 1..Len(files) : disk[i] \in {"untouched", "complete"}

\* C9: a buffer of a supported layout blended at alpha 0 has every sample of
\* every pixel at the layout's maximum, whatever the image held.
C9_AlphaZeroIsWhite ==
  (AfterProcess /\ args.alpha = 0 /\ CompositorLayout \in Supported) =>
    /\ pc # "panic"
    /\ Len(processed.px) = Len(image.px)
    /\ \A i \in 1..Len(processed.px) :
         /\ Len(processed.px[i]) = Channels(CompositorLayout)
         /\ \A ch \in 1..Len(processed.px[i]) :
              processed.px[i][ch] = max_value(CompositorLayout)

C9_Witness ==
  /\ pc = "create_pdf" /\ ~args.to_gray /\ args.alpha = 0
  /\ image.layout = "ImageRgb16"
  /\ image.px = <<(<<MaxU16, 0, 0>>)>>
  /\ processed.px = <<(<<MaxU16, MaxU16, MaxU16>>)>>

\* C10: with --to-gray, process_image never ends in unimplemented!(), whatever
\* alpha and the layout are; it does only without --to-gray, with alpha below
\* Opaque and a layout outside the supported ones.
C10_GrayNeverUnsupported ==
  /\ (AfterProcess /\ args.to_gray) => pc # "panic"
  /\ failure = "unimplemented" =>
       /\ ~args.to_gray
       /\ args.alpha < Opaque
       /\ image.layout \notin Supported

C10_Witness ==
  /\ pc = "create_pdf" /\ args.to_gray /\ args.alpha = 1
  /\ image.layout = "ImageRgba16"
  /\ processed.layout = "ImageLuma8"

====
